---- MODULE Spec2Model ----
(***************************************************************************)
(* Model of antec_display_service.py: the hwmon sensor resolver, the       *)
(* temperature reader, the 12-byte frame encoder, the USB transport and    *)
(* the monitoring loop of main().                                          *)
(*                                                                         *)
(* Text is modelled as sequences of one-character strings.  A temperature  *)
(* is held in millidegrees Celsius (the integer m stands for the float     *)
(* m / 1000 that read_temperature returns); hwmon value files hold decimal *)
(* integers, for which the integer arithmetic below agrees with Python's   *)
(* float //, % and int().                                                  *)
(***************************************************************************)
EXTENDS Integers, Sequences, FiniteSets, TLC

VARIABLES
    pc,            \* position of main()
    config,        \* what load_config() returns: present is FALSE for None
    hwmonExists,   \* does /sys/class/hwmon exist
    tree,          \* the hwmon directory: a sequence of driver directories
    cpu_path,      \* resolved CPU source, <<>> for None
    gpu_path,      \* resolved GPU source, <<>> for None
    cpu_temp,      \* last CPU reading, millidegrees
    gpu_temp,      \* last GPU reading, millidegrees
    payload,       \* last frame built by generate_payload
    cycle_count,   \* the loop's cycle counter
    kernelDriver,  \* a kernel driver is bound to interface 0 of the display
    devHeld,       \* the Device located by the running send_to_device call is undisposed
    leaked,        \* a Device located by an earlier call was never disposed
    dev,           \* the condition of the display met by this cycle's send
    lastOutcome,   \* how this cycle's encode and send ended, "none" before
    prevFault,     \* the previous cycle's send ended in a transport fault
    wire,          \* the frame written to the OUT endpoint in this cycle
    lastWait,      \* the last wait the loop performed, in tenths of a second
    sigint,        \* where main() was when KeyboardInterrupt arrived, "none" before
    report,        \* the last message main() itself logged outside a cycle
    iters,         \* loop iterations started
    level,         \* log level of the last temperature observation
    readFault,     \* which reads of this cycle fell back to 0.0
    resolveCalls,  \* calls of find_temp_file made
    desc,          \* a descriptor handed to find_temp_file
    found          \* what find_temp_file returned for desc

vars == <<pc, config, hwmonExists, tree, cpu_path, gpu_path, cpu_temp, gpu_temp,
          payload, cycle_count, kernelDriver, devHeld, leaked, dev, lastOutcome,
          prevFault, wire, lastWait, sigint, report, iters, level, readFault,
          resolveCalls, desc, found>>

-----------------------------------------------------------------------------
(* Bounds of the model                                                     *)

\* loop iterations explored
MaxCycles == 11

\* driver directories in an enumerated sensor tree
MaxDrivers == 2

-----------------------------------------------------------------------------
(* Program constants                                                       *)

\* time.sleep(0.5), in tenths of a second
Period == 5

\* time.sleep(5), in tenths of a second
Cooldown == 50

\* cycle_count % 10
InfoPeriod == 10

\* the (sum + 7) of the checksum
ChecksumSeed == 7

\* the fixed header 55 aa 01 01 06 of payload_hex
HeaderHex == <<"5", "5", "a", "a", "0", "1", "0", "1", "0", "6">>

-----------------------------------------------------------------------------
(* Text                                                                    *)

HexDigits == <<"0", "1", "2", "3", "4", "5", "6", "7",
               "8", "9", "a", "b", "c", "d", "e", "f">>

DecDigits == <<"0", "1", "2", "3", "4", "5", "6", "7", "8", "9">>

Whitespace == {" ", "\n", "\t"}

IsHex(c) == \E i \in 1..16 : HexDigits[i] = c

HexVal(c) == (CHOOSE i \in 1..16 : HexDigits[i] = c) - 1

IsDec(c) == \E i \in 1..10 : DecDigits[i] = c

DecVal(c) == (CHOOSE i \in 1..10 : DecDigits[i] = c) - 1

RECURSIVE LStrip(_)
LStrip(s) == IF s # <<>> /\ Head(s) \in Whitespace THEN LStrip(Tail(s)) ELSE s

RECURSIVE RStrip(_)
RStrip(s) ==
    IF s # <<>> /\ s[Len(s)] \in Whitespace
    THEN RStrip(SubSeq(s, 1, Len(s) - 1))
    ELSE s

\* str.strip()
Strip(s) == RStrip(LStrip(s))

RECURSIVE ToHex(_)
ToHex(n) ==
    IF n < 16 THEN <<HexDigits[n + 1]>>
    ELSE ToHex(n \div 16) \o <<HexDigits[(n % 16) + 1]>>

RECURSIVE ZeroPad(_, _)
ZeroPad(s, w) == IF Len(s) < w THEN ZeroPad(<<"0">> \o s, w) ELSE s

\* f"{n:02x}": sign-aware zero padding to a minimum width of two characters
Format02x(n) ==
    IF n < 0 THEN <<"-">> \o ZeroPad(ToHex(0 - n), 1)
    ELSE ZeroPad(ToHex(n), 2)

RECURSIVE HexPairs(_)
HexPairs(s) ==
    IF s = <<>> THEN <<>>
    ELSE <<16 * HexVal(s[1]) + HexVal(s[2])>> \o HexPairs(SubSeq(s, 3, Len(s)))

\* bytes.fromhex(s): ValueError on a non-hex character or an odd number of digits
FromHex(s) ==
    IF (\A i \in 1..Len(s) : IsHex(s[i])) /\ Len(s) % 2 = 0
    THEN [err |-> FALSE, bytes |-> HexPairs(s)]
    ELSE [err |-> TRUE, bytes |-> <<>>]

RECURSIVE Sum(_)
Sum(s) == IF s = <<>> THEN 0 ELSE Head(s) + Sum(Tail(s))

RECURSIVE DecNat(_)
DecNat(s) ==
    IF s = <<>> THEN 0
    ELSE 10 * DecNat(SubSeq(s, 1, Len(s) - 1)) + DecVal(s[Len(s)])

\* float(text) for the texts of the model: an optional sign and decimal digits;
\* the value is returned as an integer
ParseNumber(s) ==
    LET signed == s # <<>> /\ Head(s) \in {"-", "+"}
        digits == IF signed THEN Tail(s) ELSE s
    IN  IF digits # <<>> /\ \A i \in 1..Len(digits) : IsDec(digits[i])
        THEN [err |-> FALSE,
              val |-> IF signed /\ Head(s) = "-" THEN 0 - DecNat(digits)
                      ELSE DecNat(digits)]
        ELSE [err |-> TRUE, val |-> 0]

-----------------------------------------------------------------------------
(* read_temperature                                                        *)

\* what open(path) meets: a missing file, an unreadable one, or a text
SourceStates ==
    { [kind |-> "missing", text |-> <<>>],
      [kind |-> "unreadable", text |-> <<>>],
      [kind |-> "text", text |-> <<"N", "/", "A", "\n">>],
      [kind |-> "text", text |-> <<"2", "3", "7", "0", "0", "\n">>],
      [kind |-> "text", text |-> <<"-", "5", "0", "0", "0", "\n">>] }

\* temperature in millidegrees (the float is val / 1000) and whether the
\* fallback 0.0 was returned from an except branch
read_temperature(src) ==
    IF src.kind # "text" THEN [val |-> 0, fault |-> TRUE]
    ELSE LET p == ParseNumber(Strip(src.text))
         IN  IF p.err THEN [val |-> 0, fault |-> TRUE]
             ELSE [val |-> p.val, fault |-> FALSE]

-----------------------------------------------------------------------------
(* generate_payload                                                        *)

\* temp in millidegrees m: temp // 10, temp % 10 and (temp * 10) % 10 truncated
encode_temperature(m) ==
    LET integer_part == m \div 10000
        tenths_part == (m % 10000) \div 1000
        hundredths_part == (m % 1000) \div 100
    IN  Format02x(integer_part) \o Format02x(tenths_part) \o Format02x(hundredths_part)

\* [err |-> TRUE] stands for the ValueError bytes.fromhex raises
generate_payload(c, g) ==
    LET cpu_encoded == encode_temperature(c)
        gpu_encoded == encode_temperature(g)
        combined_encoded == FromHex(cpu_encoded \o gpu_encoded)
    IN  IF combined_encoded.err THEN [err |-> TRUE, bytes |-> <<>>]
        ELSE LET checksum == (Sum(combined_encoded.bytes) + ChecksumSeed) % 256
             IN  FromHex(HeaderHex \o cpu_encoded \o gpu_encoded \o Format02x(checksum))

-----------------------------------------------------------------------------
(* The hwmon tree                                                          *)

CpuLabel == <<"C", "P", "U">>

GpuLabel == <<"G", "P", "U">>

AsusName == <<"a", "s", "u", "s", "e", "c">>

AmdName == <<"a", "m", "d", "g", "p", "u">>

Entry(prefix, idx, suffix, text) ==
    [prefix |-> prefix, idx |-> idx, suffix |-> suffix, text |-> text]

\* directory listings of a driver directory, in os.listdir order
DirListings ==
    { <<>>,
      <<Entry("temp", 1, "_label", CpuLabel \o <<"\n">>)>>,
      <<Entry("temp", 1, "_label", GpuLabel \o <<"\n">>)>>,
      <<Entry("temp", 1, "_input", <<"4", "1", "0", "0", "0", "\n">>),
        Entry("temp", 1, "_label", CpuLabel \o <<"\n">>),
        Entry("temp", 2, "_label", GpuLabel \o <<"\n">>)>>,
      <<Entry("temp", 2, "_label", CpuLabel \o <<"\n">>),
        Entry("temp", 1, "_label", CpuLabel)>>,
      <<Entry("fan", 1, "_label", CpuLabel \o <<"\n">>),
        Entry("temp", 1, "_label", GpuLabel \o <<"\n">>)>>,
      <<Entry("temp", 1, "_label", GpuLabel \o <<"\n">>),
        Entry("temp", 2, "_label", <<" ">> \o CpuLabel \o <<" ", "\n">>)>> }

\* the name file of a driver directory: absent, or its text
NameFiles ==
    { [exists |-> FALSE, text |-> <<>>],
      [exists |-> TRUE, text |-> AsusName \o <<"\n">>],
      [exists |-> TRUE, text |-> AmdName \o <<"\n">>],
      [exists |-> TRUE, text |-> AsusName] }

DriverDirs == [name : NameFiles, files : DirListings]

Trees(n) == UNION { [1..k -> DriverDirs] : k \in 0..n }

Descriptors == [sensor : {AsusName, AmdName}, name : {CpuLabel, GpuLabel}]

\* IsTempLabel without the startswith("temp") test
IsTempLabel_AnyLabel(e) == e.suffix = "_label"

\* temp_file.startswith("temp") and temp_file.endswith("_label")
IsTempLabel(e) == e.prefix = "temp" /\ e.suffix = "_label"

\* label_path.replace("_label", "_input"): hwmon<d>/temp<idx>_input
InputPath(d, e) == <<d, e.idx>>

-----------------------------------------------------------------------------
(* find_temp_file                                                          *)

\* the inner loop over os.listdir(sensor_path), from entry i on
RECURSIVE ScanLabels(_, _, _, _)
ScanLabels(files, d, i, label_name) ==
    IF i > Len(files) THEN <<>>
    ELSE IF IsTempLabel(files[i]) /\ Strip(files[i].text) = label_name
         THEN InputPath(d, files[i])
         ELSE ScanLabels(files, d, i + 1, label_name)

\* the outer loop over os.listdir(hwmon_base), from directory d on
RECURSIVE ScanHwmon(_, _, _, _)
ScanHwmon(t, d, sensor_name, label_name) ==
    IF d > Len(t) THEN <<>>
    ELSE IF t[d].name.exists /\ Strip(t[d].name.text) = sensor_name
         THEN LET hit == ScanLabels(t[d].files, d, 1, label_name)
              IN  IF hit # <<>> THEN hit
                  ELSE ScanHwmon(t, d + 1, sensor_name, label_name)
         ELSE ScanHwmon(t, d + 1, sensor_name, label_name)

\* raised: os.listdir(hwmon_base) raises FileNotFoundError; path <<>> is None
find_temp_file(exists, t, sensor_name, label_name) ==
    IF ~exists THEN [raised |-> TRUE, path |-> <<>>]
    ELSE [raised |-> FALSE, path |-> ScanHwmon(t, 1, sensor_name, label_name)]

-----------------------------------------------------------------------------
(* list_hwmon_sensors and select_sensor                                    *)

RECURSIVE ListLabels(_, _)
ListLabels(files, i) ==
    IF i > Len(files) THEN <<>>
    ELSE IF IsTempLabel(files[i])
         THEN <<files[i].idx>> \o ListLabels(files, i + 1)
         ELSE ListLabels(files, i + 1)

\* the sensors dict in insertion order: one entry per directory with a name file
RECURSIVE ListHwmon(_, _)
ListHwmon(t, d) ==
    IF d > Len(t) THEN <<>>
    ELSE IF t[d].name.exists
         THEN <<[hwmon |-> d, labels |-> ListLabels(t[d].files, 1)]>>
              \o ListHwmon(t, d + 1)
         ELSE ListHwmon(t, d + 1)

list_hwmon_sensors(exists, t) == IF ~exists THEN <<>> ELSE ListHwmon(t, 1)

\* Python's list[i]: valid for -len <= i < len, negative i counts from the end
PyIndexOk(s, i) == 0 - Len(s) <= i /\ i < Len(s)

PyIndex(s, i) == IF i < 0 THEN s[Len(s) + i + 1] ELSE s[i + 1]

\* the numbers typed at the two prompts of select_sensor (0 becomes index -1)
Answers == 0..3

\* raised: the IndexError of an answer out of range
select_sensor(sensors, sensor_answer, label_answer) ==
    LET sensor_idx == sensor_answer - 1
        label_idx == label_answer - 1
    IN  IF ~PyIndexOk(sensors, sensor_idx) THEN [raised |-> TRUE, path |-> <<>>]
        ELSE LET s == PyIndex(sensors, sensor_idx)
             IN  IF ~PyIndexOk(s.labels, label_idx)
                 THEN [raised |-> TRUE, path |-> <<>>]
                 ELSE [raised |-> FALSE,
                       path |-> <<s.hwmon, PyIndex(s.labels, label_idx)>>]

-----------------------------------------------------------------------------
(* The machines main() is started on                                       *)

AsusDir(files) == [name |-> [exists |-> TRUE, text |-> AsusName \o <<"\n">>], files |-> files]

AmdDir(files) == [name |-> [exists |-> TRUE, text |-> AmdName \o <<"\n">>], files |-> files]

CpuChannel == Entry("temp", 1, "_label", CpuLabel \o <<"\n">>)

GpuChannel == Entry("temp", 2, "_label", GpuLabel \o <<"\n">>)

TreeBoth == <<AsusDir(<<CpuChannel>>), AmdDir(<<GpuChannel>>)>>

TreeNoGpu == <<AsusDir(<<CpuChannel>>)>>

TreeNoCpu == <<AmdDir(<<GpuChannel>>)>>

\* sensors.conf names asusec/CPU and amdgpu/GPU
ConfigFile ==
    [present |-> TRUE,
     cpu |-> [sensor |-> AsusName, name |-> CpuLabel],
     gpu |-> [sensor |-> AmdName, name |-> GpuLabel]]

\* load_config() returned None
NoConfig == [ConfigFile EXCEPT !.present = FALSE]

Setups ==
    { [exists |-> TRUE, tree |-> TreeBoth, config |-> ConfigFile],
      [exists |-> TRUE, tree |-> TreeNoGpu, config |-> ConfigFile],
      [exists |-> TRUE, tree |-> TreeNoCpu, config |-> ConfigFile],
      [exists |-> TRUE, tree |-> <<>>, config |-> ConfigFile],
      [exists |-> FALSE, tree |-> <<>>, config |-> ConfigFile],
      [exists |-> TRUE, tree |-> TreeNoGpu, config |-> NoConfig],
      [exists |-> TRUE, tree |-> <<>>, config |-> NoConfig],
      [exists |-> FALSE, tree |-> <<>>, config |-> NoConfig] }

\* the conditions send_to_device can meet the display in
DeviceStates ==
    {"no_backend", "absent", "no_access", "config_error", "no_out_endpoint",
     "write_error", "healthy"}

\* the positions of main() inside the while loop's try statement
TryPcs == {"read", "encode", "send", "write", "sleep"}

\* the positions inside the while loop
LoopPcs == TryPcs \cup {"cooldown"}

\* main() has ended: it returned, re-raised from its outer handler, or let
\* KeyboardInterrupt through
EndPcs == {"stopped", "fatal", "escaped"}

TransportFaults == {"not_found", "endpoint_missing", "write_failed", "usb_error"}

-----------------------------------------------------------------------------
(* main                                                                    *)

Init ==
    /\ pc = "idle"
    /\ \E s \in Setups :
          /\ hwmonExists = s.exists
          /\ tree = s.tree
          /\ config = s.config
    /\ cpu_path = <<>>
    /\ gpu_path = <<>>
    /\ cpu_temp = 0
    /\ gpu_temp = 0
    /\ payload = <<>>
    /\ cycle_count = 0
    /\ kernelDriver = TRUE
    /\ devHeld = FALSE
    /\ leaked = FALSE
    /\ dev = "none"
    /\ lastOutcome = "none"
    /\ prevFault = FALSE
    /\ wire = <<>>
    /\ lastWait = 0
    /\ sigint = "none"
    /\ report = "starting"
    /\ iters = 0
    /\ level = "none"
    /\ readFault = <<FALSE, FALSE>>
    /\ resolveCalls = 0
    /\ desc = ConfigFile.cpu
    /\ found = [raised |-> FALSE, path |-> <<>>]

loopVars == <<cpu_temp, gpu_temp, payload, cycle_count, kernelDriver, devHeld, leaked,
              dev, lastOutcome, prevFault, wire, lastWait, iters, level, readFault>>

setupVars == <<config, hwmonExists, tree, desc, found>>

\* config = load_config(); if config: ... else: ...
LoadConfig ==
    /\ pc = "idle"
    /\ pc' = IF config.present THEN "resolve" ELSE "select"
    /\ UNCHANGED <<cpu_path, gpu_path, sigint, report, resolveCalls>>
    /\ UNCHANGED loopVars
    /\ UNCHANGED setupVars

\* ResolutionFailed testing cpu_path alone
ResolutionFailed_CpuOnly(c, g) == c = <<>>

\* if not cpu_path or not gpu_path
ResolutionFailed(c, g) == c = <<>> \/ g = <<>>

\* the two find_temp_file calls and the check after them
ResolveSensors ==
    /\ pc = "resolve"
    /\ LET c == find_temp_file(hwmonExists, tree, config.cpu.sensor, config.cpu.name)
           g == find_temp_file(hwmonExists, tree, config.gpu.sensor, config.gpu.name)
       IN  IF c.raised
           THEN /\ pc' = "fatal"
                /\ report' = "critical"
                /\ resolveCalls' = resolveCalls + 1
                /\ UNCHANGED <<cpu_path, gpu_path>>
           ELSE /\ cpu_path' = c.path
                /\ gpu_path' = g.path
                /\ resolveCalls' = resolveCalls + 2
                /\ IF ResolutionFailed(c.path, g.path)
                   THEN pc' = "stopped" /\ report' = "resolve_error"
                   ELSE pc' = "read" /\ report' = "monitoring"
    /\ UNCHANGED sigint
    /\ UNCHANGED loopVars
    /\ UNCHANGED setupVars

\* sensors = list_hwmon_sensors(); the two select_sensor calls
SelectSensors ==
    /\ pc = "select"
    /\ LET sensors == list_hwmon_sensors(hwmonExists, tree)
       IN  IF sensors = <<>>
           THEN /\ pc' = "stopped"
                /\ report' = "no_sensors"
                /\ UNCHANGED <<cpu_path, gpu_path>>
           ELSE \E a1 \in Answers, a2 \in Answers, a3 \in Answers, a4 \in Answers :
                   LET c == select_sensor(sensors, a1, a2)
                       g == select_sensor(sensors, a3, a4)
                   IN  IF c.raised
                       THEN /\ pc' = "fatal"
                            /\ report' = "critical"
                            /\ UNCHANGED <<cpu_path, gpu_path>>
                       ELSE IF g.raised
                            THEN /\ pc' = "fatal"
                                 /\ report' = "critical"
                                 /\ cpu_path' = c.path
                                 /\ UNCHANGED gpu_path
                            ELSE /\ pc' = "read"
                                 /\ report' = "monitoring"
                                 /\ cpu_path' = c.path
                                 /\ gpu_path' = g.path
    /\ UNCHANGED <<sigint, resolveCalls>>
    /\ UNCHANGED loopVars
    /\ UNCHANGED setupVars

\* logging.info at cycle_count % 10 == 0, logging.debug otherwise
ObservationLevel(n) == IF n % InfoPeriod = 0 THEN "info" ELSE "debug"

\* the two read_temperature calls and the temperature observation
ReadTemps ==
    /\ pc = "read"
    /\ iters < MaxCycles
    /\ \E cs \in SourceStates, gs \in SourceStates :
          LET c == read_temperature(cs)
              g == read_temperature(gs)
          IN  /\ cpu_temp' = c.val
              /\ gpu_temp' = g.val
              /\ readFault' = <<c.fault, g.fault>>
    /\ level' = ObservationLevel(cycle_count)
    /\ iters' = iters + 1
    /\ prevFault' = (lastOutcome \in TransportFaults)
    /\ lastOutcome' = "none"
    /\ dev' = "none"
    /\ wire' = <<>>
    /\ pc' = "encode"
    /\ UNCHANGED <<cpu_path, gpu_path, payload, cycle_count, kernelDriver, devHeld,
                   leaked, lastWait, sigint, report, resolveCalls>>
    /\ UNCHANGED setupVars

\* OnLoopException without the loop's except Exception clause: the exception
\* reaches the outer handler of main(), which re-raises it
OnLoopException_Propagates ==
    /\ pc' = "fatal"
    /\ lastOutcome' = "encode_error"

\* except Exception: logging.error(...); the cooldown follows
OnLoopException ==
    /\ pc' = "cooldown"
    /\ lastOutcome' = "encode_error"

\* payload = generate_payload(cpu_temp, gpu_temp)
GeneratePayload ==
    /\ pc = "encode"
    /\ LET r == generate_payload(cpu_temp, gpu_temp)
       IN  IF r.err
           THEN OnLoopException /\ UNCHANGED payload
           ELSE /\ payload' = r.bytes
                /\ pc' = "send"
                /\ UNCHANGED lastOutcome
    /\ UNCHANGED <<cpu_path, gpu_path, cpu_temp, gpu_temp, cycle_count, kernelDriver,
                   devHeld, leaked, dev, prevFault, wire, lastWait, sigint, report,
                   iters, level, readFault, resolveCalls>>
    /\ UNCHANGED setupVars

\* FinishSend with send_to_device re-raising its transport errors into the loop
FinishSend_Raises(outcome) ==
    /\ lastOutcome' = outcome
    /\ IF outcome = "ok"
       THEN cycle_count' = cycle_count + 1 /\ pc' = "sleep"
       ELSE UNCHANGED cycle_count /\ pc' = "cooldown"

\* send_to_device has returned: cycle_count += 1, then time.sleep(0.5) is next
FinishSend(outcome) ==
    /\ lastOutcome' = outcome
    /\ cycle_count' = cycle_count + 1
    /\ pc' = "sleep"

\* send_to_device up to the endpoint lookup.  The display met is the
\* environment's choice: no_backend (usb.core.find raises), absent (find
\* returns None; a display plugged in again is bound by the kernel driver
\* again), no_access (is_kernel_driver_active or detach_kernel_driver raises),
\* config_error (set_configuration raises), no_out_endpoint (find_descriptor
\* returns None), write_error and healthy (the endpoint is found).  A Device
\* that was located and is left without dispose_resources is recorded in leaked.
SendOpen ==
    /\ pc = "send"
    /\ \E d \in DeviceStates :
          /\ dev' = d
          /\ CASE d = "no_backend" ->
                    /\ FinishSend("usb_error")
                    /\ UNCHANGED <<kernelDriver, devHeld, leaked>>
               [] d = "absent" ->
                    /\ FinishSend("not_found")
                    /\ kernelDriver' = TRUE
                    /\ UNCHANGED <<devHeld, leaked>>
               [] d = "no_access" ->
                    /\ FinishSend("usb_error")
                    /\ leaked' = TRUE
                    /\ UNCHANGED <<kernelDriver, devHeld>>
               [] d = "config_error" ->
                    /\ FinishSend("usb_error")
                    /\ kernelDriver' = FALSE
                    /\ leaked' = TRUE
                    /\ UNCHANGED devHeld
               [] d = "no_out_endpoint" ->
                    /\ FinishSend("endpoint_missing")
                    /\ kernelDriver' = FALSE
                    /\ leaked' = TRUE
                    /\ UNCHANGED devHeld
               [] OTHER ->
                    /\ pc' = "write"
                    /\ kernelDriver' = FALSE
                    /\ devHeld' = TRUE
                    /\ UNCHANGED <<lastOutcome, cycle_count, leaked>>
    /\ UNCHANGED <<cpu_path, gpu_path, cpu_temp, gpu_temp, payload, prevFault, wire,
                   lastWait, sigint, report, iters, level, readFault, resolveCalls>>
    /\ UNCHANGED setupVars

\* endpoint.write(payload) and usb.util.dispose_resources(device)
SendWrite ==
    /\ pc = "write"
    /\ IF dev = "healthy"
       THEN wire' = payload /\ FinishSend("ok")
       ELSE UNCHANGED wire /\ FinishSend("write_failed")
    /\ devHeld' = FALSE
    /\ UNCHANGED <<cpu_path, gpu_path, cpu_temp, gpu_temp, payload, kernelDriver, leaked,
                   dev, prevFault, lastWait, sigint, report, iters, level, readFault,
                   resolveCalls>>
    /\ UNCHANGED setupVars

\* time.sleep(0.5) has elapsed
SleepPeriod ==
    /\ pc = "sleep"
    /\ pc' = "read"
    /\ lastWait' = Period
    /\ UNCHANGED <<cpu_path, gpu_path, cpu_temp, gpu_temp, payload, cycle_count,
                   kernelDriver, devHeld, leaked, dev, lastOutcome, prevFault, wire,
                   sigint, report, iters, level, readFault, resolveCalls>>
    /\ UNCHANGED setupVars

\* time.sleep(5) has elapsed
SleepCooldown ==
    /\ pc = "cooldown"
    /\ pc' = "read"
    /\ lastWait' = Cooldown
    /\ UNCHANGED <<cpu_path, gpu_path, cpu_temp, gpu_temp, payload, cycle_count,
                   kernelDriver, devHeld, leaked, dev, lastOutcome, prevFault, wire,
                   sigint, report, iters, level, readFault, resolveCalls>>
    /\ UNCHANGED setupVars

\* KeyboardInterrupt inside the try statement: except KeyboardInterrupt, break
InterruptInTry ==
    /\ pc \in TryPcs
    /\ sigint' = pc
    /\ report' = "stopped_by_user"
    /\ pc' = "stopped"
    /\ UNCHANGED <<cpu_path, gpu_path, resolveCalls>>
    /\ UNCHANGED loopVars
    /\ UNCHANGED setupVars

\* KeyboardInterrupt inside the except Exception handler, during time.sleep(5):
\* no handler of main() catches it
InterruptInHandler ==
    /\ pc = "cooldown"
    /\ sigint' = pc
    /\ pc' = "escaped"
    /\ UNCHANGED <<cpu_path, gpu_path, report, resolveCalls>>
    /\ UNCHANGED loopVars
    /\ UNCHANGED setupVars

\* KeyboardInterrupt before the loop: the outer except Exception does not catch it
InterruptAtStartup ==
    /\ pc \in {"idle", "resolve", "select"}
    /\ sigint' = pc
    /\ pc' = "escaped"
    /\ UNCHANGED <<cpu_path, gpu_path, report, resolveCalls>>
    /\ UNCHANGED loopVars
    /\ UNCHANGED setupVars

Next ==
    \/ LoadConfig
    \/ ResolveSensors
    \/ SelectSensors
    \/ ReadTemps
    \/ GeneratePayload
    \/ SendOpen
    \/ SendWrite
    \/ SleepPeriod
    \/ SleepCooldown
    \/ InterruptInTry
    \/ InterruptInHandler
    \/ InterruptAtStartup

Spec == Init /\ [][Next]_vars

-----------------------------------------------------------------------------
(* generate_payload on its own: the frame encoder applied to a pair of     *)
(* temperatures, from -50 to 40960 degrees                                 *)

EncodeInputs ==
    {-50000, -5000, -100, 0, 100, 9900, 23700, 65400, 99900, 100000, 150000,
     2559900, 2560000, 40960000}

InitEncode ==
    /\ pc = "encode"
    /\ hwmonExists = TRUE
    /\ tree = TreeBoth
    /\ config = ConfigFile
    /\ cpu_path = <<1, 1>>
    /\ gpu_path = <<2, 2>>
    /\ cpu_temp \in EncodeInputs
    /\ gpu_temp \in EncodeInputs
    /\ payload = <<>>
    /\ cycle_count = 0
    /\ kernelDriver = TRUE
    /\ devHeld = FALSE
    /\ leaked = FALSE
    /\ dev = "none"
    /\ lastOutcome = "none"
    /\ prevFault = FALSE
    /\ wire = <<>>
    /\ lastWait = 0
    /\ sigint = "none"
    /\ report = "monitoring"
    /\ iters = 1
    /\ level = "info"
    /\ readFault = <<FALSE, FALSE>>
    /\ resolveCalls = 2
    /\ desc = ConfigFile.cpu
    /\ found = [raised |-> FALSE, path |-> <<>>]

NextEncode == GeneratePayload

SpecEncode == InitEncode /\ [][NextEncode]_vars

-----------------------------------------------------------------------------
(* find_temp_file on its own: the resolver applied to every sensor tree of *)
(* at most MaxDrivers driver directories                                   *)

InitResolve ==
    /\ pc = "resolver"
    /\ \/ hwmonExists = TRUE /\ tree \in Trees(MaxDrivers)
       \/ hwmonExists = FALSE /\ tree = <<>>
    /\ desc \in Descriptors
    /\ found = [raised |-> FALSE, path |-> <<>>]
    /\ config = ConfigFile
    /\ cpu_path = <<>>
    /\ gpu_path = <<>>
    /\ cpu_temp = 0
    /\ gpu_temp = 0
    /\ payload = <<>>
    /\ cycle_count = 0
    /\ kernelDriver = TRUE
    /\ devHeld = FALSE
    /\ leaked = FALSE
    /\ dev = "none"
    /\ lastOutcome = "none"
    /\ prevFault = FALSE
    /\ wire = <<>>
    /\ lastWait = 0
    /\ sigint = "none"
    /\ report = "starting"
    /\ iters = 0
    /\ level = "none"
    /\ readFault = <<FALSE, FALSE>>
    /\ resolveCalls = 0

\* one call of find_temp_file(desc.sensor, desc.name)
ResolveOne ==
    /\ pc = "resolver"
    /\ found' = find_temp_file(hwmonExists, tree, desc.sensor, desc.name)
    /\ resolveCalls' = resolveCalls + 1
    /\ pc' = "resolved"
    /\ UNCHANGED <<config, hwmonExists, tree, desc, cpu_path, gpu_path, sigint, report>>
    /\ UNCHANGED loopVars

NextResolve == ResolveOne

SpecResolve == InitResolve /\ [][NextResolve]_vars

-----------------------------------------------------------------------------
(* Properties                                                              *)

\* the channels of tree t that descriptor ds names: <<directory, entry>> places
\* whose driver name is ds.sensor and whose temp*_label text is ds.name
MatchingChannels(t, ds) ==
    UNION { { <<d, i>> : i \in { j \in 1..Len(t[d].files) :
                                  /\ t[d].name.exists
                                  /\ Strip(t[d].name.text) = ds.sensor
                                  /\ t[d].files[j].prefix = "temp"
                                  /\ t[d].files[j].suffix = "_label"
                                  /\ Strip(t[d].files[j].text) = ds.name } } :
            d \in 1..Len(t) }

EnumeratedBefore(a, b) == a[1] < b[1] \/ (a[1] = b[1] /\ a[2] < b[2])

\* the value endpoint of the first matching channel in enumeration order,
\* <<>> (NotFound) when there is none
FirstMatch(t, ds) ==
    LET ms == MatchingChannels(t, ds)
    IN  IF ms = {} THEN <<>>
        ELSE LET m == CHOOSE x \in ms : \A y \in ms : y = x \/ EnumeratedBefore(x, y)
             IN  <<m[1], t[m[1]].files[m[2]].idx>>

\* C1: at every point of the loop outside the write step of send_to_device, no
\* Device located by send_to_device is left undisposed: every exit path of the
\* call has released it.
C1_ReleasedOnEveryExit ==
    pc \in (LoopPcs \ {"write"}) => (~devHeld /\ ~leaked)

\* C2: once generate_payload has been applied to a pair of finite temperatures,
\* it has not raised and the frame it returned has exactly 12 bytes.
C2_EncodeIsTotal ==
    pc # "encode" => (lastOutcome # "encode_error" /\ pc = "send" /\ Len(payload) = 12)

\* C3: every frame generate_payload returns carries at byte 11 (counting from
\* 0) the sum of bytes 5..10 plus 7, modulo 256.
C3_ChecksumInvariant ==
    pc = "send" => payload[12] = (Sum(SubSeq(payload, 6, 11)) + ChecksumSeed) % 256

C5_InterruptStopsCleanly ==
    sigint \in LoopPcs => (pc = "stopped" /\ report = "stopped_by_user")

\* C6: once the monitoring loop has started, main ends only through a
\* KeyboardInterrupt delivered in the loop; an exception escaping a cycle leads
\* to the cooldown and, after the 5 s wait, back to the top of the loop.
C6_OnlyInterruptEndsLoop ==
    /\ (report \in {"monitoring", "stopped_by_user"} /\ pc \in EndPcs) =>
          sigint \in LoopPcs
    /\ report \in {"monitoring", "stopped_by_user"} => pc \in LoopPcs \cup EndPcs
    /\ lastOutcome = "encode_error" =>
          \/ pc = "cooldown"
          \/ pc = "read" /\ lastWait = Cooldown
          \/ pc = "escaped" /\ sigint = "cooldown"
          \/ pc = "stopped" /\ sigint = "read" /\ lastWait = Cooldown

\* C6 witness: a cycle is running again after a faulted cycle and its cooldown
C6_Witness ==
    pc = "send" /\ lastWait = Cooldown /\ iters >= 2 /\ sigint = "none"

\* C7: with a configuration loaded, when the sensor directory is absent or
\* either descriptor names no channel of the tree, main ends right after the
\* resolution with the failure logged: find_temp_file ran at most once per
\* descriptor, no loop iteration started, no frame was built or sent.
C7_ResolutionFailureStops ==
    ( /\ config.present
      /\ pc \notin {"idle", "resolve"}
      /\ sigint = "none"
      /\ \/ ~hwmonExists
         \/ MatchingChannels(tree, config.cpu) = {}
         \/ MatchingChannels(tree, config.gpu) = {} )
    => /\ pc \in {"stopped", "fatal"}
       /\ report \in {"resolve_error", "critical"}
       /\ resolveCalls <= 2
       /\ iters = 0
       /\ payload = <<>>
       /\ lastOutcome = "none"
       /\ wire = <<>>

\* C7 witness: the CPU descriptor resolved, the GPU descriptor did not
C7_Witness ==
    /\ config.present
    /\ pc = "stopped"
    /\ report = "resolve_error"
    /\ cpu_path # <<>>
    /\ gpu_path = <<>>

\* C8: on every sensor tree, find_temp_file returns without raising, and what
\* it returns is the value endpoint of the first channel in enumeration order
\* whose driver name and label equal the descriptor's, or None when the tree
\* holds no such channel.
C8_FirstMatchOrNotFound ==
    (pc = "resolved" /\ hwmonExists) =>
        (~found.raised /\ found.path = FirstMatch(tree, desc))

\* C8 witness: two drivers carry the descriptor's name, the first of them has
\* no channel with its label, and the second one's channel was returned
C8_Witness ==
    /\ pc = "resolved"
    /\ Len(tree) = 2
    /\ Strip(tree[1].name.text) = desc.sensor
    /\ tree[1].name.exists
    /\ found.path # <<>>
    /\ found.path[1] = 2

\* C9: in a cycle where a read fell back to 0.0, generate_payload still returns
\* a frame, with the digit bytes 00 00 00 for the failed channel, and the send
\* is attempted: the cycle does not end in the cooldown.
C9_ReadFaultStillSends ==
    ((readFault[1] \/ readFault[2]) /\ pc \in {"send", "write", "sleep", "cooldown"}) =>
        /\ pc # "cooldown"
        /\ readFault[1] => SubSeq(payload, 6, 8) = <<0, 0, 0>>
        /\ readFault[2] => SubSeq(payload, 9, 11) = <<0, 0, 0>>

\* C10: the cycle counter has counted every loop iteration started, and every
\* window of 10 consecutive cycles holds exactly one info-level observation:
\* the first cycle's observation is at info level, so the info-level
\* observations are those of the cycles 0, 10, 20, ... and no others.
C10_OneSummaryPerTenCycles ==
    /\ pc = "read" => cycle_count = iters
    /\ pc = "encode" => ((level = "info") <=> ((iters - 1) % InfoPeriod = 0))

====
